---- MODULE Spec2Model ----
(***************************************************************************)
(* Model of rswitch-script_b1500a.py: the two measurement primitives        *)
(* sweep() and sample() driving a Keysight B1500A over a VISA session.      *)
(*                                                                         *)
(* Units: voltages in tenths of a volt, the sweep rate dVdt in tenths of a  *)
(* volt per second, compliances in microamperes, timesteps in milliseconds. *)
(* A decoded float is a record [m, e] standing for m * 10^e.                *)
(***************************************************************************)
EXTENDS Integers, Sequences, FiniteSets, TLC

\* ------------------------------------------------------------------ bounds
MaxPts == 2
MaxFields == 2

\* ------------------------------------------------------- program constants
top == 3
bot == 4
dVdt == 2
hold == 0
AutoAbortCode == 660
OtherErrCode == 100

Voltages == {10, 20}
formcomp == 5
swcomp == 1000
Compliances == {formcomp, swcomp}
Timesteps == {50}
Points == 1..MaxPts
ErrCodes == {0, OtherErrCode, AutoAbortCode}

\* ------------------------------------------------------------ wire format
\* One comma-separated field of a response: <status><channel><kind><number>.
\* long = the field has at least three characters; tag = its third
\* character; the numeric suffix reads <mant/1000>E<exp> when wellformed.
Fld(long, tag, wellformed, mant, exp) ==
    [long |-> long, tag |-> tag, wellformed |-> wellformed, mant |-> mant, exp |-> exp]

FieldT    == Fld(TRUE, "T", TRUE, 50, 0)           \* "NAT+0.050E+00"
FieldI    == Fld(TRUE, "I", TRUE, 1234, -6)        \* "NAI+1.234E-06"
FieldV    == Fld(TRUE, "V", TRUE, 1000, 0)         \* "NAV+1.000E+00"
FieldIOvf == Fld(TRUE, "I", TRUE, 199999, 99)      \* "NAI+199.999E+99"
FieldIBad == Fld(TRUE, "I", FALSE, 0, 0)           \* "NAI+1.2.3"
FieldZ    == Fld(TRUE, "Z", TRUE, 1000, 0)         \* "NAZ+1.000E+00"
FieldShrt == Fld(FALSE, "", FALSE, 0, 0)           \* "NA"

Fields == {FieldT, FieldI, FieldV, FieldIOvf, FieldIBad, FieldZ, FieldShrt}

RECURSIVE SeqsUpTo(_, _)
SeqsUpTo(S, n) ==
    IF n = 0 THEN {<<>>}
    ELSE LET shorter == SeqsUpTo(S, n - 1)
         IN  shorter \cup {Append(s, x) : s \in {t \in shorter : Len(t) = n - 1}, x \in S}

\* The texts the instrument may put on the bus for one burst.
Responses == SeqsUpTo(Fields, MaxFields)

\* str.split(','): the empty text yields one empty field.
Split(text) == IF text = <<>> THEN <<FieldShrt>> ELSE text

\* float(i[3:])
Float(f) == [m |-> f.mant, e |-> f.exp - 3]


\* --------------------------------------------------------- response parser
NoExc == "none"

\* The body of "for i in rawdata" with the kind tests of `kinds`, applied to
\* the fields left to right; acc = [exc, T, V, I].  i[2] on a field shorter
\* than three characters raises IndexError; float() of a malformed suffix
\* raises ValueError; a field of any other tag is passed over.
RECURSIVE ParseLoop(_, _, _)
ParseLoop(fields, kinds, acc) ==
    IF fields = <<>> \/ acc.exc # NoExc THEN acc
    ELSE LET i == Head(fields)
             step ==
                 IF ~i.long THEN [acc EXCEPT !.exc = "IndexError"]
                 ELSE IF i.tag \notin kinds THEN acc
                 ELSE IF ~i.wellformed THEN [acc EXCEPT !.exc = "ValueError"]
                 ELSE IF i.tag = "I" THEN [acc EXCEPT !.I = Append(@, Float(i))]
                 ELSE IF i.tag = "V" THEN [acc EXCEPT !.V = Append(@, Float(i))]
                 ELSE [acc EXCEPT !.T = Append(@, Float(i))]
         IN  ParseLoop(Tail(fields), kinds, step)

SweepKinds == {"I", "V", "T"}
\* (mutation) sample's loop without the "T" branch
SampleKindsNoT == {"I"}
SampleKinds == {"I", "T"}

\* ---------------------------------------------------------------- commands
Cmd(op, a) == [op |-> op, a |-> a]

\* (mutation) the delay computed without the sweep rate
delay_no_rate(V1, V2, npts) == [num |-> V2 - V1, den |-> npts]

\* delay = (V2-V1)/(npts*dVdt), kept as the fraction num/den
delay(V1, V2, npts) == [num |-> V2 - V1, den |-> npts * dVdt]

\* (mutation) the sweep configured without the reset
sweep_config_cmds_norst(V1, V2, npts, comp) ==
    << Cmd("CN", <<top, bot>>),
       Cmd("FMT", <<1, 1>>),
       Cmd("TSC", <<1>>),
       Cmd("AV", <<30, 1>>),
       Cmd("FL", <<0>>),
       Cmd("DV", <<top, 0, 0, comp>>),
       Cmd("DV", <<bot, 0, 0, comp>>),
       Cmd("MM", <<2, top>>),
       Cmd("CMM", <<top, 1>>),
       Cmd("RI", <<top, 0>>),
       Cmd("WT", <<hold, delay(V1, V2, npts).num, delay(V1, V2, npts).den>>),
       Cmd("WM", <<1>>) >>

sweep_config_cmds(V1, V2, npts, comp) ==
    << Cmd("*RST", <<>>),
       Cmd("CN", <<top, bot>>),
       Cmd("FMT", <<1, 1>>),
       Cmd("TSC", <<1>>),
       Cmd("AV", <<30, 1>>),
       Cmd("FL", <<0>>),
       Cmd("DV", <<top, 0, 0, comp>>),
       Cmd("DV", <<bot, 0, 0, comp>>),
       Cmd("MM", <<2, top>>),
       Cmd("CMM", <<top, 1>>),
       Cmd("RI", <<top, 0>>),
       Cmd("WT", <<hold, delay(V1, V2, npts).num, delay(V1, V2, npts).den>>),
       Cmd("WM", <<1>>) >>

\* (mutation) the timer reset written after the trigger
sweep_pos_cmds_late(V1, V2, npts, comp) ==
    << Cmd("WV", <<top, 3, 0, V1, V2, npts, comp>>),
       Cmd("XE", <<>>),
       Cmd("TSR", <<>>) >>

sweep_pos_cmds(V1, V2, npts, comp) ==
    << Cmd("WV", <<top, 3, 0, V1, V2, npts, comp>>),
       Cmd("TSR", <<>>),
       Cmd("XE", <<>>) >>

\* (mutation) the negative pass programmed with the global swcomp, not comp
sweep_neg_cmds_swcomp(V1, V2, npts, comp) ==
    << Cmd("WV", <<top, 3, 0, V1, -V2, npts, swcomp>>),
       Cmd("XE", <<>>) >>

\* (mutation) the negative pass armed like the positive one, timer reset included
sweep_neg_cmds_tsr(V1, V2, npts, comp) ==
    << Cmd("WV", <<top, 3, 0, V1, -V2, npts, comp>>),
       Cmd("TSR", <<>>),
       Cmd("XE", <<>>) >>

sweep_neg_cmds(V1, V2, npts, comp) ==
    << Cmd("WV", <<top, 3, 0, V1, -V2, npts, comp>>),
       Cmd("XE", <<>>) >>

\* (mutation) the sample configured without the format command
sample_config_cmds_nofmt(V, dt, npts, comp) ==
    << Cmd("*RST", <<>>),
       Cmd("CN", <<top, bot>>),
       Cmd("TSC", <<1>>),
       Cmd("FL", <<1>>),
       Cmd("AAD", <<top, 1>>),
       Cmd("AAD", <<bot, 1>>),
       Cmd("AIT", <<1, 1, 3>>),
       Cmd("AZ", <<0>>),
       Cmd("MT", <<0, dt, npts, 0>>),
       Cmd("MV", <<top, 0, 0, V, comp>>),
       Cmd("DV", <<bot, 0, 0, comp>>) >>

sample_config_cmds(V, dt, npts, comp) ==
    << Cmd("*RST", <<>>),
       Cmd("CN", <<top, bot>>),
       Cmd("FMT", <<1, 1>>),
       Cmd("TSC", <<1>>),
       Cmd("FL", <<1>>),
       Cmd("AAD", <<top, 1>>),
       Cmd("AAD", <<bot, 1>>),
       Cmd("AIT", <<1, 1, 3>>),
       Cmd("AZ", <<0>>),
       Cmd("MT", <<0, dt, npts, 0>>),
       Cmd("MV", <<top, 0, 0, V, comp>>),
       Cmd("DV", <<bot, 0, 0, comp>>) >>

\* (mutation) automatic abort enabled whatever form says
sample_arm_cmds_always(form) ==
    << Cmd("MM", <<10, top>>), Cmd("RI", <<top, 0>>), Cmd("MSC", <<2>>),
       Cmd("TSR", <<>>), Cmd("XE", <<>>) >>

sample_arm_cmds(form) ==
    << Cmd("MM", <<10, top>>), Cmd("RI", <<top, 0>>) >>
    \o (IF form = TRUE THEN << Cmd("MSC", <<2>>) >> ELSE <<>>)
    \o << Cmd("TSR", <<>>), Cmd("XE", <<>>) >>

\* (mutation) the error reported before the outputs are zeroed
abort_cmds_report_first(e) == << Cmd("EMG?", <<e>>), Cmd("DZ", <<>>) >>

\* (mutation) the abort path reports the error without the DZ write
abort_cmds_noDZ(e) == << Cmd("EMG?", <<e>>) >>

\* inst.write("DZ"); errorchk(inst,err)
abort_cmds(e) == << Cmd("DZ", <<>>), Cmd("EMG?", <<e>>) >>

\* inst.write("DZ;CL")
teardown_cmds == << Cmd("DZ", <<>>), Cmd("CL", <<>>) >>

\* if err != 0:   (every check but the one after sample's trigger)
err_rejects(e) == e # 0

\* (mutation) the post-trigger check of sample without the 660 exception
sample_rejects_strict(e) == e # 0

\* if not ((err == 0) or (err == 660)):
sample_rejects(e) == ~((e = 0) \/ (e = AutoAbortCode))


\* -------------------------------------------------------------------- state
VARIABLES
    pc,        \* position of the running call; "idle" between calls
    fn,        \* "sweep" or "sample": the function last called ("none" before the first)
    args,      \* its arguments [V1, V2, V, dt, npts, comp, form]
    log,       \* commands the call has sent to the instrument, in order
    err,       \* the local err
    rawdata,   \* the local rawdata after split(',')
    Tdat,      \* the local lists
    Vdat,
    Idat,
    ret,       \* how the call ended: [how, data]
    inst,      \* the instrument: [busy, buf, msc, wt, on, zero, comp]
    errs,      \* every code the call has read from the error register, in order
    runs,      \* the settings each triggered execution of this call ran with
    reads,     \* which burst each inst.read() of this call returned
    step       \* main: which call of MainPlan comes next; 0 once the script has died

vars == <<pc, fn, args, log, err, rawdata, Tdat, Vdat, Idat, ret, inst, errs, runs, reads,
          step>>

Ops(cmds) == [k \in 1..Len(cmds) |-> cmds[k].op]

Count(seq, x) == Cardinality({k \in 1..Len(seq) : seq[k] = x})

\* The effect of one command on the instrument.  buf holds the unread
\* bursts, oldest first, each named by the trigger that produced it (0 for a
\* burst left from an earlier call).  comp is the compliance programmed
\* for the force (t) and the common (b) channel, 0 when none is.
InstApply(i, c) ==
    CASE c.op = "*RST" -> [i EXCEPT !.msc = FALSE, !.wt = <<0, 0, 1>>, !.on = FALSE,
                                    !.comp = [t |-> 0, b |-> 0]]
      [] c.op = "CN"   -> [i EXCEPT !.on = TRUE]
      [] c.op = "FMT"  -> [i EXCEPT !.buf = <<>>]
      [] c.op = "WT"   -> [i EXCEPT !.wt = c.a]
      [] c.op = "MSC"  -> [i EXCEPT !.msc = (c.a[1] = 2)]
      [] c.op = "DV"   -> IF c.a[1] = top
                            THEN [i EXCEPT !.zero = (c.a[3] = 0), !.comp.t = c.a[4]]
                            ELSE [i EXCEPT !.zero = (c.a[3] = 0), !.comp.b = c.a[4]]
      [] c.op = "MV"   -> [i EXCEPT !.comp.t = c.a[5]]
      [] c.op = "WV"   -> [i EXCEPT !.comp.t = c.a[7]]
      [] c.op = "XE"   -> [i EXCEPT !.busy = TRUE, !.zero = FALSE]
      [] c.op = "DZ"   -> [i EXCEPT !.zero = TRUE]
      [] c.op = "CL"   -> [i EXCEPT !.on = FALSE]
      [] OTHER         -> i

RECURSIVE InstSend(_, _)
InstSend(i, cmds) ==
    IF cmds = <<>> THEN i ELSE InstSend(InstApply(i, Head(cmds)), Tail(cmds))

\* inst.write / inst.query of the commands, in order
Send(cmds) ==
    /\ log' = log \o cmds
    /\ inst' = InstSend(inst, cmds)

Locals0 ==
    [V1 |-> 0, V2 |-> 0, V |-> 0, dt |-> 0, npts |-> 0, comp |-> 0, form |-> FALSE]

Running == [how |-> "running", data |-> <<>>]

Init ==
    /\ pc = "idle"
    /\ fn = "none"
    /\ args = Locals0
    /\ log = <<>>
    /\ err = 0
    /\ rawdata = <<>>
    /\ Tdat = <<>>
    /\ Vdat = <<>>
    /\ Idat = <<>>
    /\ ret = Running
    /\ inst = [busy |-> FALSE, buf |-> <<>>, msc |-> FALSE, wt |-> <<0, 0, 1>>,
               on |-> FALSE, zero |-> TRUE, comp |-> [t |-> 0, b |-> 0]]
    /\ errs = <<>>
    /\ runs = <<>>
    /\ reads = <<>>
    /\ step = 1

\* A call starts.
Enter(f, a, first) ==
    /\ pc = "idle"
    /\ fn' = f
    /\ args' = a
    /\ pc' = first
    /\ UNCHANGED <<step, log, err, rawdata, Tdat, Vdat, Idat, ret, inst, errs, runs, reads>>

\* The call is over and its frame gone: the caller has taken what it
\* returned (or its exception), and what the instrument still holds unread
\* is from now on a burst of an earlier call ...
LeaveFrame ==
    /\ pc \in {"returned", "raised"}
    /\ pc' = "idle"
    /\ fn' = "none"
    /\ args' = Locals0
    /\ log' = <<>>
    /\ err' = 0
    /\ rawdata' = <<>>
    /\ Tdat' = <<>>
    /\ Vdat' = <<>>
    /\ Idat' = <<>>
    /\ ret' = Running
    /\ inst' = [inst EXCEPT !.buf = [k \in 1..Len(@) |-> 0]]
    /\ errs' = <<>>
    /\ runs' = <<>>
    /\ reads' = <<>>

\* ... in a caller that goes on with any call, whatever it was handed.
Leave ==
    /\ LeaveFrame
    /\ UNCHANGED step

\* The instrument finishes the triggered program and puts its burst in the
\* output buffer; *OPC? answers only after this.
InstrumentExecute ==
    /\ inst.busy
    /\ inst' = [inst EXCEPT !.busy = FALSE,
                            !.buf = Append(@, Count(Ops(log), "XE"))]
    /\ UNCHANGED <<step, pc, fn, args, log, err, rawdata, Tdat, Vdat, Idat, ret, errs, runs, reads>>

\* inst.write("XE") as the last of cmds: the program runs with the settings now in force
Trigger(cmds) ==
    /\ Send(cmds)
    /\ runs' = Append(runs, [wt |-> InstSend(inst, cmds).wt,
                             msc |-> InstSend(inst, cmds).msc,
                             comp |-> InstSend(inst, cmds).comp])

\* (mutation) the completion query answered, or given up, before the program is done
OpcNoWait(next) ==
    /\ Send(<< Cmd("*OPC?", <<>>) >>)
    /\ pc' = next
    /\ UNCHANGED <<step, fn, args, err, rawdata, Tdat, Vdat, Idat, ret, errs, runs, reads>>

\* inst.query("*OPC?"): blocks until the instrument is done
Opc(next) ==
    /\ ~inst.busy
    /\ Send(<< Cmd("*OPC?", <<>>) >>)
    /\ pc' = next
    /\ UNCHANGED <<step, fn, args, err, rawdata, Tdat, Vdat, Idat, ret, errs, runs, reads>>

\* (mutation) the abort branch without its return: DZ and errorchk, then on
CheckNoReturn(e, rejected, next) ==
    /\ err' = e
    /\ IF rejected
         THEN Send(<< Cmd("ERR?", <<1>>) >> \o abort_cmds(e))
         ELSE /\ log' = Append(log, Cmd("ERR?", <<1>>))
              /\ UNCHANGED inst
    /\ pc' = next
    /\ errs' = Append(errs, e)
    /\ UNCHANGED <<step, fn, args, rawdata, Tdat, Vdat, Idat, ret, runs, reads>>

\* err = int(inst.query("ERR? 1")) answered with e; the abort or the way on
Check(e, rejected, next) ==
    /\ err' = e
    /\ IF rejected
         THEN /\ Send(<< Cmd("ERR?", <<1>>) >> \o abort_cmds(e))
              /\ ret' = [how |-> "None", data |-> <<>>]
              /\ pc' = "returned"
         ELSE /\ log' = Append(log, Cmd("ERR?", <<1>>))
              /\ pc' = next
              /\ UNCHANGED <<inst, ret>>
    /\ errs' = Append(errs, e)
    /\ UNCHANGED <<step, fn, args, rawdata, Tdat, Vdat, Idat, runs, reads>>


\* rawdata = inst.read(); rawdata = rawdata.split(','); for i in rawdata: ...
\* The read returns the oldest unread burst; its text is any response.
ReadParse(kinds, next) ==
    /\ inst.buf # <<>>
    /\ \E text \in Responses :
          LET acc == ParseLoop(Split(text), kinds,
                               [exc |-> NoExc, T |-> Tdat, V |-> Vdat, I |-> Idat])
          IN  /\ rawdata' = Split(text)
              /\ Tdat' = acc.T
              /\ Vdat' = acc.V
              /\ Idat' = acc.I
              /\ IF acc.exc # NoExc
                   THEN /\ ret' = [how |-> acc.exc, data |-> <<>>]
                        /\ pc' = "raised"
                   ELSE /\ pc' = next
                        /\ UNCHANGED ret
    /\ log' = Append(log, Cmd("read", <<>>))
    /\ inst' = [inst EXCEPT !.buf = Tail(@)]
    /\ reads' = Append(reads, Head(inst.buf))
    /\ UNCHANGED <<step, fn, args, err, errs, runs>>

\* ------------------------------------------------------------------- sweep
\* def sweep(inst, V1, V2, npts, comp)
sweep(V1, V2, npts, comp) ==
    Enter("sweep",
          [V1 |-> V1, V2 |-> V2, V |-> 0, dt |-> 0, npts |-> npts, comp |-> comp,
           form |-> FALSE],
          "sweep_config")

sweep_config ==
    /\ pc = "sweep_config"
    /\ Send(sweep_config_cmds(args.V1, args.V2, args.npts, args.comp))
    /\ pc' = "sweep_check1"
    /\ UNCHANGED <<step, fn, args, err, rawdata, Tdat, Vdat, Idat, ret, errs, runs, reads>>

sweep_check1 ==
    /\ pc = "sweep_check1"
    /\ \E e \in ErrCodes : Check(e, err_rejects(e), "sweep_pos")

sweep_pos ==
    /\ pc = "sweep_pos"
    /\ Trigger(sweep_pos_cmds(args.V1, args.V2, args.npts, args.comp))
    /\ pc' = "sweep_opc1"
    /\ UNCHANGED <<step, fn, args, err, rawdata, Tdat, Vdat, Idat, ret, errs, reads>>

sweep_opc1 ==
    /\ pc = "sweep_opc1"
    /\ Opc("sweep_check2")

sweep_check2 ==
    /\ pc = "sweep_check2"
    /\ \E e \in ErrCodes : Check(e, err_rejects(e), "sweep_read1")

sweep_read1 ==
    /\ pc = "sweep_read1"
    /\ ReadParse(SweepKinds, "sweep_neg")

sweep_neg ==
    /\ pc = "sweep_neg"
    /\ Trigger(sweep_neg_cmds(args.V1, args.V2, args.npts, args.comp))
    /\ pc' = "sweep_opc2"
    /\ UNCHANGED <<step, fn, args, err, rawdata, Tdat, Vdat, Idat, ret, errs, reads>>

sweep_opc2 ==
    /\ pc = "sweep_opc2"
    /\ Opc("sweep_check3")

sweep_check3 ==
    /\ pc = "sweep_check3"
    /\ \E e \in ErrCodes : Check(e, err_rejects(e), "sweep_read2")

\* (mutation) the lists emptied again before the second parse loop
sweep_read2_reset ==
    /\ pc = "sweep_read2"
    /\ inst.buf # <<>>
    /\ \E text \in Responses :
          LET acc == ParseLoop(Split(text), SweepKinds,
                               [exc |-> NoExc, T |-> <<>>, V |-> <<>>, I |-> <<>>])
          IN  /\ rawdata' = Split(text)
              /\ Tdat' = acc.T
              /\ Vdat' = acc.V
              /\ Idat' = acc.I
              /\ IF acc.exc # NoExc
                   THEN /\ ret' = [how |-> acc.exc, data |-> <<>>]
                        /\ pc' = "raised"
                   ELSE /\ pc' = "sweep_end"
                        /\ UNCHANGED ret
    /\ log' = Append(log, Cmd("read", <<>>))
    /\ inst' = [inst EXCEPT !.buf = Tail(@)]
    /\ reads' = Append(reads, Head(inst.buf))
    /\ UNCHANGED <<step, fn, args, err, errs, runs>>

sweep_read2 ==
    /\ pc = "sweep_read2"
    /\ ReadParse(SweepKinds, "sweep_end")

\* inst.write("DZ;CL"); return [Tdat,Vdat,Idat]
sweep_end ==
    /\ pc = "sweep_end"
    /\ Send(teardown_cmds)
    /\ ret' = [how |-> "list", data |-> <<Tdat, Vdat, Idat>>]
    /\ pc' = "returned"
    /\ UNCHANGED <<step, fn, args, err, rawdata, Tdat, Vdat, Idat, errs, runs, reads>>

\* ------------------------------------------------------------------ sample
\* def sample(inst,V,dt,npts,comp,form=False)
sample(V, dt, npts, comp, form) ==
    Enter("sample",
          [V1 |-> 0, V2 |-> 0, V |-> V, dt |-> dt, npts |-> npts, comp |-> comp,
           form |-> form],
          "sample_config")

sample_config ==
    /\ pc = "sample_config"
    /\ Send(sample_config_cmds(args.V, args.dt, args.npts, args.comp))
    /\ pc' = "sample_check1"
    /\ UNCHANGED <<step, fn, args, err, rawdata, Tdat, Vdat, Idat, ret, errs, runs, reads>>

sample_check1 ==
    /\ pc = "sample_check1"
    /\ \E e \in ErrCodes : Check(e, err_rejects(e), "sample_arm")

sample_arm ==
    /\ pc = "sample_arm"
    /\ Trigger(sample_arm_cmds(args.form))
    /\ pc' = "sample_opc"
    /\ UNCHANGED <<step, fn, args, err, rawdata, Tdat, Vdat, Idat, ret, errs, reads>>

sample_opc ==
    /\ pc = "sample_opc"
    /\ Opc("sample_check2")

sample_check2 ==
    /\ pc = "sample_check2"
    /\ \E e \in ErrCodes : Check(e, sample_rejects(e), "sample_read")

sample_read ==
    /\ pc = "sample_read"
    /\ ReadParse(SampleKinds, "sample_end")

\* inst.write("DZ;CL"); return [Tdat,Idat]
sample_end ==
    /\ pc = "sample_end"
    /\ Send(teardown_cmds)
    /\ ret' = [how |-> "list", data |-> <<Tdat, Idat>>]
    /\ pc' = "returned"
    /\ UNCHANGED <<step, fn, args, err, rawdata, Tdat, Vdat, Idat, errs, runs, reads>>

\* ----------------------------------------------------------- specification
Next ==
    \/ \E V2 \in Voltages, npts \in Points, comp \in Compliances :
          sweep(0, V2, npts, comp)
    \/ sweep_config
    \/ sweep_check1
    \/ sweep_pos
    \/ sweep_opc1
    \/ sweep_check2
    \/ sweep_read1
    \/ sweep_neg
    \/ sweep_opc2
    \/ sweep_check3
    \/ sweep_read2
    \/ sweep_end
    \/ \E V \in Voltages, dt \in Timesteps, npts \in Points, comp \in Compliances,
          form \in BOOLEAN :
          sample(V, dt, npts, comp, form)
    \/ sample_config
    \/ sample_check1
    \/ sample_arm
    \/ sample_opc
    \/ sample_check2
    \/ sample_read
    \/ sample_end
    \/ InstrumentExecute
    \/ Leave

Spec == Init /\ [][Next]_vars


\* The steps of the running call.
CallStep ==
    \/ sweep_config
    \/ sweep_check1
    \/ sweep_pos
    \/ sweep_opc1
    \/ sweep_check2
    \/ sweep_read1
    \/ sweep_neg
    \/ sweep_opc2
    \/ sweep_check3
    \/ sweep_read2
    \/ sweep_end
    \/ sample_config
    \/ sample_check1
    \/ sample_arm
    \/ sample_opc
    \/ sample_check2
    \/ sample_read
    \/ sample_end


\* ------------------------------------------------------------------- main
\* The script's own settings, in the model's units (tenths of a volt, ms).
initV == 10
finalV == <<10, 20>>    \* the first and the last of the three ranges
Vsense == 1
dtsense == 50
Vform == 35
dtform == 200
dVset == 2
dtset == 100

\* The numbers of points and of repetitions, scaled down: swpts, senspts and
\* the forming's 2400 points to MaxPts, nswps and setpts to 1.
swpts == MaxPts
senspts == MaxPts
formpts == MaxPts

\* the conductance loop's voltages: setpts steps up, then setpts steps down
voltages == <<dVset, -dVset>>

SweepCall(line, V2) ==
    [line |-> line, fn |-> "sweep", first |-> "sweep_config",
     a |-> [V1 |-> 0, V2 |-> V2, V |-> 0, dt |-> 0, npts |-> swpts, comp |-> swcomp,
            form |-> FALSE]]

SampleCall(line, V, dt, npts, comp, form) ==
    [line |-> line, fn |-> "sample", first |-> "sample_config",
     a |-> [V1 |-> 0, V2 |-> 0, V |-> V, dt |-> dt, npts |-> npts, comp |-> comp,
            form |-> form]]

RECURSIVE ConductanceCalls(_)
ConductanceCalls(vs) ==
    IF vs = <<>> THEN <<>>
    ELSE << SampleCall(301, Head(vs), dtset, senspts, swcomp, FALSE),
            SampleCall(303, Vsense, dtsense, senspts, swcomp, FALSE) >>
         \o ConductanceCalls(Tail(vs))

\* The calls main makes, in order; each is tagged with its source line.
MainPlan ==
    << SampleCall(241, Vsense, dtsense, senspts, swcomp, FALSE),
       SweepCall(251, initV),
       SampleCall(261, Vform, dtform, formpts, formcomp, TRUE),
       SampleCall(273, Vsense, dtsense, senspts, swcomp, FALSE) >>
    \o ConductanceCalls(voltages)
    \o [k \in 1..Len(finalV) |-> SweepCall(334, finalV[k])]

Died == 0
Completed == Len(MainPlan) + 1

\* main makes its next call.
main_call ==
    /\ step \in 1..Len(MainPlan)
    /\ Enter(MainPlan[step].fn, MainPlan[step].a, MainPlan[step].first)

\* What main does with a returned list goes through only if the series it
\* puts side by side have one length: np.array + savetxt need all of them
\* equal (241-243, 251-253, 261-265), a plot needs its two (306-307, 337).
\* The set sample's lists (301) are only indexed before the next call.
Usable(line, data) ==
    CASE line = 301 -> TRUE
      [] line = 334 -> Len(data[2]) = Len(data[3])
      [] OTHER      -> \A i, j \in 1..Len(data) : Len(data[i]) = Len(data[j])

\* Lists gathered over several calls are put side by side after the sense
\* sample of a conductance step (306, 312-315): whether they fit depends on
\* earlier calls' results, which the model does not keep, so either outcome
\* is possible there.
UsesEarlierResults(line) == line = 303

\* (mutation) main carrying on with whatever the call handed back
main_use_unchecked ==
    /\ step \in 1..Len(MainPlan)
    /\ pc = "returned"
    /\ LeaveFrame
    /\ step' = step + 1

\* main took a usable result and goes on to its next statement.
main_use ==
    /\ step \in 1..Len(MainPlan)
    /\ pc = "returned"
    /\ ret.how = "list"
    /\ Usable(MainPlan[step].line, ret.data)
    /\ LeaveFrame
    /\ step' = step + 1

\* The script dies with a traceback: the call raised, or main's next
\* statements raise on what it returned (None cannot be indexed or
\* transposed and saved, ragged lists cannot be saved or plotted). Nothing
\* catches the exception and nothing is sent to the instrument on the way out.
main_crash ==
    /\ step \in 1..Len(MainPlan)
    /\ \/ pc = "raised"
       \/ /\ pc = "returned"
          /\ \/ ret.how # "list"
             \/ ret.how = "list" /\ ~Usable(MainPlan[step].line, ret.data)
             \/ UsesEarlierResults(MainPlan[step].line)
    /\ LeaveFrame
    /\ step' = Died

MainNext ==
    \/ main_call
    \/ CallStep
    \/ InstrumentExecute
    \/ main_use
    \/ main_crash

\* The script runs on as long as it can (nothing else is scheduled), and the
\* instrument finishes every measurement it was triggered to make; the
\* session has no timeout (inst.timeout = None).
MainSpec ==
    /\ Init
    /\ [][MainNext]_vars
    /\ WF_vars(main_call \/ CallStep \/ main_use \/ main_crash)
    /\ WF_vars(InstrumentExecute)

\* ------------------------------------------------------------------ claims
ops == Ops(log)

\* where in the log the commands named op stand
Positions(op) == {p \in 1..Len(log) : log[p].op = op}

Returned == pc = "returned"
ReturnedData == pc = "returned" /\ ret.how = "list"
ReturnedNone == pc = "returned" /\ ret.how = "None"

C2_NonFormingRejects660 ==
    (fn = "sample" /\ ~args.form /\ Len(errs) = 2 /\ errs[2] = AutoAbortCode)
        => ReturnedNone /\ Count(ops, "read") = 0

\* C3: in a sample call with form, 660 after the triggered execution does not
\* abort the call - the response is read and, once parsed, [Tdat, Idat] is
\* returned - while any other nonzero code there aborts it with None and no
\* read.
C3_FormingAccepts660Only ==
    (fn = "sample" /\ args.form /\ Len(errs) = 2) =>
        /\ errs[2] = AutoAbortCode =>
              /\ ret.how # "None"
              /\ pc # "sample_check2"
              /\ Returned => /\ ret = [how |-> "list", data |-> <<Tdat, Idat>>]
                             /\ Count(ops, "read") = 1
        /\ errs[2] \notin {0, AutoAbortCode} =>
              /\ ReturnedNone
              /\ ret.data = <<>>
              /\ Count(ops, "read") = 0

\* a forming call that ended through 660 and returned data
C3_Witness ==
    /\ fn = "sample" /\ args.form /\ Len(errs) = 2 /\ errs[2] = AutoAbortCode
    /\ ReturnedData
    /\ Len(ret.data[2]) > 0

RECURSIVE Pow10(_)
Pow10(n) == IF n = 0 THEN 1 ELSE 10 * Pow10(n - 1)

Abs(x) == IF x < 0 THEN -x ELSE x

OverflowExp == 101

\* |v| >= 1e+101
IsOverflow(v) ==
    LET d == OverflowExp - v.e
    IN  Abs(v.m) > 0 /\ (d <= 0 \/ (d <= 9 /\ Abs(v.m) >= Pow10(d)))

\* C4: no returned series holds a value at or above the overflow threshold.
C4_NoRawOverflowReturned ==
    ReturnedData =>
        \A s \in 1..Len(ret.data) : \A k \in 1..Len(ret.data[s]) :
            ~IsOverflow(ret.data[s][k])

\* C5: a call that ends in the parse step's exception has written the
\* teardown and left the outputs at 0 V with the channels disabled.
C5_ParseFailureTearsDown ==
    pc = "raised" => Count(ops, "DZ") = 1 /\ inst.zero /\ ~inst.on


\* the codes the k-th error check of the running call lets pass
Accepted(k) ==
    IF fn = "sample" /\ k = 2 THEN {0, AutoAbortCode} ELSE {0}

\* where in the log the k-th ERR? query stands
ErrPos(k) ==
    CHOOSE p \in Positions("ERR?") :
        Cardinality({q \in Positions("ERR?") : q <= p}) = k

\* C6: once an error check has read a code it does not accept, the call has
\* returned None, and after that query the log holds only the abort's DZ and
\* error-message query: no WV, no XE, no read.
C6_FailedCheckShortCircuits ==
    \A k \in 1..Len(errs) :
        errs[k] \notin Accepted(k) =>
            /\ ReturnedNone
            /\ ret.data = <<>>
            /\ k = Len(errs)
            /\ \A p \in (ErrPos(k) + 1)..Len(log) : log[p].op \in {"DZ", "EMG?"}

\* a sweep aborted at the check after the negative pass, with positive-pass
\* data already parsed
C6_Witness ==
    /\ fn = "sweep" /\ Len(errs) = 3 /\ errs[3] # 0
    /\ Idat # <<>>
    /\ ReturnedNone

\* C7: every XE in the log is directly followed by *OPC? (or is the last
\* entry, with the call standing at its *OPC? query), and the instrument is
\* executing only while that XE is the last thing sent.
C7_TriggerThenWait ==
    /\ \A p \in 1..Len(log) :
          log[p].op = "XE" =>
              IF p = Len(log)
                THEN pc \in {"sweep_opc1", "sweep_opc2", "sample_opc"}
                ELSE log[p + 1].op = "*OPC?"
    /\ inst.busy => (log # <<>> /\ log[Len(log)].op = "XE")

\* both passes of a sweep triggered and waited for
C7_Witness ==
    /\ fn = "sweep" /\ Count(ops, "XE") = 2 /\ Count(ops, "*OPC?") = 2
    /\ log[Len(log)].op = "*OPC?"

\* the values of the fields of kind k, in order
KindValues(fields, k) ==
    LET sel == SelectSeq(fields, LAMBDA f : f.long /\ f.tag = k)
    IN  [j \in 1..Len(sel) |-> [m |-> sel[j].mant, e |-> sel[j].exp - 3]]

\* C8 as stated: a sweep that returns data returns three series of length
\* 2*npts.
C8_SweepLengths ==
    (fn = "sweep" /\ ReturnedData) =>
        \A s \in 1..3 : Len(ret.data[s]) = 2 * args.npts

\* C8 amended: each series of a sweep is the values of its kind of the
\* positive-pass response followed by those of the negative-pass response,
\* in transmission order, and [Tdat, Vdat, Idat] is returned as it then
\* stands; its lengths are those of the responses, which are not checked.
C8_SweepConcatenatesPasses ==
    [][ /\ (pc = "sweep_read1" /\ pc' = "sweep_neg") =>
              /\ Tdat' = KindValues(rawdata', "T")
              /\ Vdat' = KindValues(rawdata', "V")
              /\ Idat' = KindValues(rawdata', "I")
        /\ (pc = "sweep_neg" \/ pc = "sweep_opc2" \/ pc = "sweep_check3") =>
              <<Tdat, Vdat, Idat>>' = <<Tdat, Vdat, Idat>>
        /\ (pc = "sweep_read2" /\ pc' = "sweep_end") =>
              /\ Tdat' = Tdat \o KindValues(rawdata', "T")
              /\ Vdat' = Vdat \o KindValues(rawdata', "V")
              /\ Idat' = Idat \o KindValues(rawdata', "I")
        /\ (pc = "sweep_end" /\ pc' = "returned") =>
              ret' = [how |-> "list", data |-> <<Tdat, Vdat, Idat>>]
      ]_vars

\* a sweep of one point returning the two passes' currents, in pass order
C8_Witness ==
    /\ fn = "sweep" /\ ReturnedData /\ args.npts = 1
    /\ ret.data[3] = << [m |-> 1234, e |-> -9], [m |-> 199999, e |-> 96] >>
    /\ Len(ret.data[1]) = 2

\* C9 as stated: a sample that returns data returns two series of length npts.
C9_SampleLengths ==
    (fn = "sample" /\ ReturnedData) =>
        /\ Len(ret.data[1]) = args.npts
        /\ Len(ret.data[2]) = args.npts

\* C9 amended: a sample that returns data returns two series, Time with one
\* value per "T" field of the response and Current with one per "I" field;
\* they are as long as each other and as npts exactly when the response
\* holds npts fields of each kind, which the call does not check.
C9_SampleLengthsFollowResponse ==
    (fn = "sample" /\ ReturnedData) =>
        /\ Len(ret.data) = 2
        /\ Len(ret.data[1]) = Len(KindValues(rawdata, "T"))
        /\ Len(ret.data[2]) = Len(KindValues(rawdata, "I"))

\* a forming sample ended through 660 whose response held npts points
C9_Witness ==
    /\ fn = "sample" /\ args.form /\ errs = <<0, AutoAbortCode>>
    /\ ReturnedData
    /\ Len(ret.data[1]) = args.npts /\ Len(ret.data[2]) = args.npts

\* t = <<hold, num, den>> programs hold 0 and delay (V2-V1)/(npts*dVdt)
IsSweepTiming(t) ==
    /\ t[1] = 0
    /\ t[3] # 0
    /\ t[2] * (args.npts * dVdt) = (args.V2 - args.V1) * t[3]

\* C10: a sweep writes WT once, with hold 0 and delay (V2-V1)/(npts*dVdt),
\* before its first XE, and each of its triggered executions runs with that
\* timing.
C10_SweepTiming ==
    (fn = "sweep" /\ pc # "sweep_config") =>
        /\ Cardinality(Positions("WT")) = 1
        /\ \A p \in Positions("WT") :
              /\ IsSweepTiming(log[p].a)
              /\ \A q \in Positions("XE") : p < q
        /\ \A r \in 1..Len(runs) : IsSweepTiming(runs[r].wt)

\* both passes of a two-point sweep have run
C10_Witness ==
    /\ fn = "sweep" /\ args.npts = 2 /\ args.V2 = 20
    /\ Len(runs) = 2 /\ ~inst.busy
    /\ runs[2].wt = <<0, 20, 4>>

\* C11: at every failed error check the DZ write comes directly after the
\* ERR? query that read the rejected code, and the error-message query of
\* errorchk directly after the DZ; no error message is queried anywhere else.
C11_DeEnergizeBeforeReport ==
    /\ \A k \in 1..Len(errs) :
          errs[k] \notin Accepted(k) =>
              /\ Len(log) >= ErrPos(k) + 2
              /\ log[ErrPos(k) + 1] = Cmd("DZ", <<>>)
              /\ log[ErrPos(k) + 2] = Cmd("EMG?", <<errs[k]>>)
    /\ \A p \in Positions("EMG?") :
          /\ p >= 3
          /\ log[p - 1].op = "DZ"
          /\ log[p - 2].op = "ERR?"
          /\ inst.zero

\* a sample aborted at its post-trigger check
C11_Witness ==
    /\ fn = "sample" /\ errs = <<0, OtherErrCode>>
    /\ ReturnedNone
    /\ Positions("EMG?") # {}

\* the first and the last place in the log of a command named op (which occurs)
MinPos(op) == CHOOSE p \in Positions(op) : \A q \in Positions(op) : p <= q
MaxPos(op) == CHOOSE p \in Positions(op) : \A q \in Positions(op) : q <= p

\* C13: in a sweep, what is written between the read of the positive pass
\* and the trigger of the negative pass is the one command WV, with end
\* voltage -V2; nothing written after the first trigger is a reset, channel
\* enable, format, timing, ranging, abort-mode or timer-reset command, and
\* the negative pass runs with the settings the positive pass ran with.
C13_NegativePassReprogramsOnlyWV ==
    (fn = "sweep" /\ Positions("XE") # {}) =>
        /\ \A p \in (MinPos("XE") + 1)..Len(log) :
              log[p].op \in {"*OPC?", "ERR?", "read", "WV", "XE", "DZ", "EMG?", "CL"}
        /\ Cardinality(Positions("TSR")) = 1
        /\ MinPos("TSR") < MinPos("XE")
        /\ Cardinality(Positions("XE")) = 2 =>
              /\ MaxPos("XE") = MinPos("read") + 2
              /\ log[MinPos("read") + 1] =
                     Cmd("WV", <<top, 3, 0, args.V1, -args.V2, args.npts, args.comp>>)
              /\ runs[2] = runs[1]

\* the negative pass of a sweep triggered
C13_Witness ==
    /\ fn = "sweep" /\ pc = "sweep_opc2"
    /\ Cardinality(Positions("XE")) = 2
    /\ inst.busy

\* C14: a sample writes MSC 2 exactly when form is set - once, after the
\* pre-trigger error check and before XE - so its execution runs with
\* automatic abort enabled exactly when form is set; a sweep writes no MSC,
\* and WM 1 stands before each of its XE.
C14_AutoAbortOnlyWhenForming ==
    /\ fn = "sample" =>
          /\ \A p \in Positions("MSC") :
                /\ args.form
                /\ log[p].a = <<2>>
                /\ MinPos("ERR?") < p
                /\ p < MinPos("XE")
          /\ Positions("XE") # {} =>
                /\ Cardinality(Positions("MSC")) = (IF args.form THEN 1 ELSE 0)
                /\ runs[1].msc = args.form
    /\ fn = "sweep" =>
          /\ Positions("MSC") = {}
          /\ \A q \in Positions("XE") :
                \E p \in Positions("WM") : p < q /\ log[p].a = <<1>>
          /\ \A r \in 1..Len(runs) : ~runs[r].msc

\* a forming sample triggered with automatic abort enabled
C14_Witness ==
    /\ fn = "sample" /\ args.form /\ pc = "sample_opc"
    /\ Cardinality(Positions("MSC")) = 1
    /\ runs[1].msc

\* C15: every DV, MV and WV of a call carries the call's comp; each
\* triggered execution runs with comp in force on both channels, a sweep's
\* with a sweep program written for it, a sample's with its one MV.
C15_ComplianceIsTheCallers ==
    /\ \A p \in 1..Len(log) :
          /\ log[p].op = "DV" => log[p].a[4] = args.comp
          /\ log[p].op = "MV" => log[p].a[5] = args.comp
          /\ log[p].op = "WV" => log[p].a[7] = args.comp
    /\ \A r \in 1..Len(runs) : runs[r].comp = [t |-> args.comp, b |-> args.comp]
    /\ \A q \in Positions("XE") :
          /\ Cardinality({p \in Positions("DV") : p < q}) = (IF fn = "sweep" THEN 2 ELSE 1)
          /\ fn = "sweep" =>
                Cardinality({p \in Positions("WV") : p < q})
                    = Cardinality({x \in Positions("XE") : x <= q})
          /\ fn = "sample" => Cardinality({p \in Positions("MV") : p < q}) = 1

\* both passes of a sweep called with the forming compliance have run
C15_Witness ==
    /\ fn = "sweep" /\ args.comp = formcomp
    /\ Len(runs) = 2 /\ ~inst.busy
    /\ runs[2].comp = [t |-> formcomp, b |-> formcomp]

\* no field that the loop converts has a malformed number
NumbersWellFormed(fields, kinds) ==
    \A j \in 1..Len(fields) :
        (fields[j].long /\ fields[j].tag \in kinds) => fields[j].wellformed

\* C16: after the first response of a call is decoded, each list is the
\* values of the fields of its kind, in order, and no other field - of
\* another tag, "V" in a sample, or too short to have a tag - has made the
\* call fail.
C16_DecodingIsAFilter ==
    /\ (fn = "sweep" /\ Cardinality(Positions("read")) = 1
            /\ NumbersWellFormed(rawdata, {"I", "V", "T"})) =>
          /\ pc # "raised"
          /\ Tdat = KindValues(rawdata, "T")
          /\ Vdat = KindValues(rawdata, "V")
          /\ Idat = KindValues(rawdata, "I")
    /\ (fn = "sample" /\ Cardinality(Positions("read")) = 1
            /\ NumbersWellFormed(rawdata, {"I", "T"})) =>
          /\ pc # "raised"
          /\ Tdat = KindValues(rawdata, "T")
          /\ Vdat = <<>>
          /\ Idat = KindValues(rawdata, "I")

Configured == pc \notin {"idle", "sweep_config", "sample_config"}

\* C18: whatever calls came before, a call's first command is *RST; once a
\* call is configured, automatic abort is enabled in the instrument only in
\* a sample called with form, and only such a call's execution has run with
\* it enabled.
C18_AutoAbortDoesNotLeak ==
    /\ log # <<>> => log[1].op = "*RST"
    /\ (Configured /\ inst.msc) => (fn = "sample" /\ args.form)
    /\ \A r \in 1..Len(runs) : runs[r].msc => (fn = "sample" /\ args.form)

\* a sweep entered while automatic abort is still enabled from an earlier
\* forming sample
C18_Witness ==
    pc = "sweep_config" /\ inst.msc

\* C19: the k-th read of a call returns the burst of the call's k-th
\* trigger, read before the next trigger; once the call is configured the
\* instrument holds no burst of an earlier call, and never two unread.
C19_NoStaleData ==
    /\ \A k \in 1..Len(reads) : reads[k] = k
    /\ Cardinality(Positions("XE")) \in {Len(reads), Len(reads) + 1}
    /\ Configured =>
          /\ \A j \in 1..Len(inst.buf) : inst.buf[j] # 0
          /\ Len(inst.buf) <= 1
          /\ inst.busy => inst.buf = <<>>

\* a sample entered while the burst of an earlier, aborted call is unread
C19_Witness ==
    pc = "sample_config" /\ inst.buf = <<0>>

InCall == pc \notin {"idle", "returned", "raised"}

\* C12: while the triggered program has not completed, the call takes no
\* step - it sends nothing, teardown included, and does not return; with an
\* instrument that completes every program and a script that keeps running,
\* every call comes to its end.
C12_WaitHasNoTimeout ==
    /\ [][inst.busy => (pc' = pc /\ log' = log /\ ret' = ret)]_vars
    /\ InCall ~> (pc \in {"returned", "raised"})

\* a sweep waiting at *OPC? for its negative pass
C12_Witness ==
    /\ pc = "sweep_opc2" /\ inst.busy
    /\ log[Len(log)].op = "XE"
    /\ Positions("DZ") = {}

\* C17: when an error check fails, the call returns None to main, and the
\* run ends there: the script dies on that result, it makes no further call
\* and sends the instrument no further command - once it has died, nothing
\* changes any more.
C17_ErrorEndsTheRun ==
    [][ /\ step # Died
        /\ ReturnedNone =>
              /\ step' = Died
              /\ log' = <<>>
              /\ Len(inst'.buf) = Len(inst.buf)
              /\ [inst' EXCEPT !.buf = <<>>] = [inst EXCEPT !.buf = <<>>]
        /\ step' = Died => pc' = "idle"
      ]_vars

\* the forming sample came back None after a failed error check
C17_Witness ==
    /\ ReturnedNone
    /\ MainPlan[step].line = 261
    /\ Positions("DZ") # {}

====
